---- MODULE Spec2Model ----
(***************************************************************************)
(* Model of src/src/slicer/mod.rs: the plane-slicing kernel                *)
(* (slice_segment, slice_triangle, approx_equal, compare_by_xyz).          *)
(*                                                                         *)
(* Numbers.  The code computes in f32.  An f32 is modelled as an integer   *)
(* with at most Precision significant bits (a binary floating-point format *)
(* whose smallest quantum is 1), and every arithmetic operation rounds its *)
(* exact result to the nearest such value, ties to the even significand,   *)
(* as IEEE-754 does.  Coordinates are counted in units of EPSILON.  The    *)
(* interpolation parameter t is dimensionless and is counted in units of   *)
(* 1/One.  Overflow to infinity and NaN are outside the model (the input   *)
(* values are small).                                                      *)
(***************************************************************************)
EXTENDS Integers, Sequences, FiniteSets

\* ------------------------------------------------------------------ bounds
\* Significant bits of the modelled float format (f32 has 24).
Precision == 3
\* Largest x coordinate of an input vertex.
MaxX == 2

\* ------------------------------------------------------- program constant
\* const EPSILON: f32 = 1e-6; the unit of the coordinates is EPSILON.
EPSILON == 1

\* ------------------------------------------------------------ f32 numbers
RECURSIVE Pow2(_)
Pow2(n) == IF n = 0 THEN 1 ELSE 2 * Pow2(n - 1)

\* Significands are below MantLimit.
MantLimit == Pow2(Precision)

\* The value 1.0 of the dimensionless parameter t.
One == MantLimit * MantLimit

Abs(n) == IF n < 0 THEN -n ELSE n

\* The quantum (unit in the last place) of the binade holding num/den >= 0.
RECURSIVE Quantum(_, _, _)
Quantum(u, num, den) ==
    IF num < MantLimit * u * den THEN u ELSE Quantum(2 * u, num, den)

\* Nearest integer to num/den >= 0, ties to even.
RoundNearestEven(num, den) ==
    LET q == num \div den
        r == num % den
    IN  IF 2 * r < den THEN q
        ELSE IF 2 * r > den THEN q + 1
        ELSE IF q % 2 = 0 THEN q ELSE q + 1

\* Rounding of the exact value num/den (den > 0) to the float format.
RoundF(num, den) ==
    LET a == Abs(num)
        u == Quantum(1, a, den)
        m == RoundNearestEven(a, den * u) * u
    IN  IF num < 0 THEN -m ELSE m

IsF32(n) == RoundF(n, 1) = n

FAdd(a, b) == RoundF(a + b, 1)
FSub(a, b) == RoundF(a - b, 1)
\* coordinate / coordinate -> t (in units of 1/One); b # 0
FDiv(a, b) == IF b < 0 THEN RoundF((-a) * One, -b) ELSE RoundF(a * One, b)
\* coordinate * t -> coordinate
FMul(a, t) == RoundF(a * t, One)

\* ------------------------------------------------------------------- Vec3
Vec3(x, y, z) == [x |-> x, y |-> y, z |-> z]
VSub(a, b) == Vec3(FSub(a.x, b.x), FSub(a.y, b.y), FSub(a.z, b.z))
VAdd(a, b) == Vec3(FAdd(a.x, b.x), FAdd(a.y, b.y), FAdd(a.z, b.z))
VScale(a, t) == Vec3(FMul(a.x, t), FMul(a.y, t), FMul(a.z, t))

\* glam Vec3::abs_diff_eq: every component of |a - b| is <= max_abs_diff.
abs_diff_eq(a, b, max_abs_diff) ==
    /\ Abs(FSub(a.x, b.x)) <= max_abs_diff
    /\ Abs(FSub(a.y, b.y)) <= max_abs_diff
    /\ Abs(FSub(a.z, b.z)) <= max_abs_diff

\* ---------------------------------------------------- Tolerance comparator
approx_equal(a, b, max_abs_diff) == Abs(FSub(a, b)) <= max_abs_diff

\* f32::partial_cmp(..).unwrap() on finite values
partial_cmp(a, b) == IF a < b THEN "Less" ELSE IF a > b THEN "Greater" ELSE "Equal"

compare_by_xyz(a, b, max_abs_diff) ==
    IF ~approx_equal(a.x, b.x, max_abs_diff) THEN partial_cmp(a.x, b.x)
    ELSE IF ~approx_equal(a.y, b.y, max_abs_diff) THEN partial_cmp(a.y, b.y)
    ELSE IF ~approx_equal(a.z, b.z, max_abs_diff) THEN partial_cmp(a.z, b.z)
    ELSE "Equal"

\* ------------------------------------------------ Segment-plane intersector
\* Mutant: the range excludes its upper end, (0.0..1.0).contains(&t).
UnitRangeHalfOpen(t) == 0 <= t /\ t < One

\* (0.0..=1.0).contains(&t)
UnitRangeContains(t) == 0 <= t /\ t <= One

\* The point pushed for an interpolated intersection.
IntersectionPoint(intersection, current_layer_height) ==
    Vec3(intersection.x, current_layer_height, intersection.z)

\* Mutant: the test of start.y against the height is missing.
IsParallel(line_direction, start, current_layer_height) ==
    line_direction.y = 0

\* The branch taken when the segment lies in the plane.
IsParallelInPlane(line_direction, start, current_layer_height) ==
    line_direction.y = 0 /\ start.y = current_layer_height

\* Mutant: the end point is pushed before the start point.
ParallelPointsSwapped(line, current_layer_height) ==
    << Vec3(line[2].x, current_layer_height, line[2].z),
       Vec3(line[1].x, current_layer_height, line[1].z) >>

\* The two points pushed when the segment lies in the plane.
ParallelPoints(line, current_layer_height) ==
    << Vec3(line[1].x, current_layer_height, line[1].z),
       Vec3(line[2].x, current_layer_height, line[2].z) >>

slice_segment(line, current_layer_height) ==
    LET line_direction == VSub(line[2], line[1]) IN
    IF IsParallelInPlane(line_direction, line[1], current_layer_height)
    THEN ParallelPoints(line, current_layer_height)
    ELSE IF line_direction.y # 0
    THEN LET t == FDiv(FSub(current_layer_height, line[1].y), line_direction.y) IN
         IF UnitRangeContains(t)
         THEN LET intersection == VAdd(line[1], VScale(line_direction, t)) IN
              << IntersectionPoint(intersection, current_layer_height) >>
         ELSE << >>
    ELSE << >>

\* ----------------------------------------------- Triangle-plane intersector
\* The edge starting at vertex curr_ind (0-based): [triangle[curr_ind], triangle[next_ind]].
Edge(triangle, curr_ind) ==
    LET next_ind == (curr_ind + 1) % 3 IN
    << triangle[curr_ind + 1], triangle[next_ind + 1] >>

\* The loop over the three edges, extending intersections edge by edge.
Collect(triangle, current_layer_height) ==
    slice_segment(Edge(triangle, 0), current_layer_height)
        \o slice_segment(Edge(triangle, 1), current_layer_height)
        \o slice_segment(Edge(triangle, 2), current_layer_height)

\* Mutant: the closure's arguments are exchanged (a descending sort).
IsGreater(a, b) == compare_by_xyz(b, a, EPSILON) = "Less"

\* The closure handed to sort_by, as a strict "is less".
IsLess(a, b) == compare_by_xyz(a, b, EPSILON) = "Less"

\* slice::sort_by on a slice of at most 20 elements is a stable insertion
\* sort.  Two library implementations exist: one inserts v[i] leftwards into
\* the sorted prefix (for i = 1 .. len-1), the other inserts v[i] rightwards
\* into the sorted suffix (for i = len-2 .. 0).  They agree when the closure
\* is a total order and may differ when it is not.
RECURSIVE InsertTail(_, _)
InsertTail(v, e) ==
    IF v = << >> THEN << e >>
    ELSE IF IsLess(e, v[Len(v)])
         THEN Append(InsertTail(SubSeq(v, 1, Len(v) - 1), e), v[Len(v)])
         ELSE Append(v, e)

RECURSIVE SortShiftLeft(_)
SortShiftLeft(v) ==
    IF Len(v) <= 1 THEN v
    ELSE InsertTail(SortShiftLeft(SubSeq(v, 1, Len(v) - 1)), v[Len(v)])

RECURSIVE InsertHead(_, _)
InsertHead(e, v) ==
    IF v = << >> THEN << e >>
    ELSE IF IsLess(v[1], e)
         THEN << v[1] >> \o InsertHead(e, Tail(v))
         ELSE << e >> \o v

RECURSIVE SortInsertHead(_)
SortInsertHead(v) ==
    IF Len(v) <= 1 THEN v
    ELSE InsertHead(v[1], SortInsertHead(Tail(v)))

SortVariants == {"shift_left", "insert_head"}

sort_by(v, variant) ==
    IF variant = "shift_left" THEN SortShiftLeft(v) ELSE SortInsertHead(v)

\* The closure handed to dedup_by: a is the current element, b the previous
\* retained one.
SameBucket(a, b) == abs_diff_eq(a, b, EPSILON)

\* Vec::dedup_by: an element is removed when same_bucket(element, last
\* retained element) holds.
RECURSIVE DedupFrom(_, _)
DedupFrom(kept, rest) ==
    IF rest = << >> THEN kept
    ELSE IF SameBucket(rest[1], kept[Len(kept)])
         THEN DedupFrom(kept, Tail(rest))
         ELSE DedupFrom(Append(kept, rest[1]), Tail(rest))

\* Mutant: an element is removed when it is in the bucket of its immediate
\* predecessor, kept or not.
RECURSIVE DedupAdjacent(_)
DedupAdjacent(v) ==
    IF Len(v) <= 1 THEN v
    ELSE LET init == DedupAdjacent(SubSeq(v, 1, Len(v) - 1)) IN
         IF SameBucket(v[Len(v)], v[Len(v) - 1]) THEN init
         ELSE Append(init, v[Len(v)])

dedup_by(v) == IF v = << >> THEN v ELSE DedupFrom(<< v[1] >>, Tail(v))

slice_triangle(triangle, current_layer_height, variant) ==
    dedup_by(sort_by(Collect(triangle, current_layer_height), variant))

\* ------------------------------------------------------------------ inputs
\* A y far from the plane, large enough for the subtraction of a small y
\* from it to round.
Big == MantLimit + MantLimit \div 2
XVals == 0 .. MaxX
YVals == {-Big, 0, EPSILON, Big}
ZVals == {0, 2 * EPSILON, 4 * EPSILON}
HVals == {0, 2 * EPSILON}
Points == {Vec3(x, y, z) : x \in XVals, y \in YVals, z \in ZVals}

\* ------------------------------------------------------------------- state
VARIABLES
    triangle,               \* the three vertices handed to the kernel
    current_layer_height,   \* the height handed to the kernel
    pc,                     \* which function has been applied
    line,                   \* slice_segment: the edge it was applied to
    segment_intersections,  \* slice_segment: its return value
    collected,              \* slice_triangle: intersections after the loop
    sorted,                 \* slice_triangle: intersections after sort_by
    intersections,          \* slice_triangle: its return value
    ord                     \* compare_by_xyz on every pair of vertices

vars == << triangle, current_layer_height, pc, line, segment_intersections,
           collected, sorted, intersections, ord >>

Init ==
    /\ triangle \in [1 .. 3 -> Points]
    /\ current_layer_height \in HVals
    /\ pc = "input"
    /\ line = << >>
    /\ segment_intersections = << >>
    /\ collected = << >>
    /\ sorted = << >>
    /\ intersections = << >>
    /\ ord = << >>

\* A call of slice_segment on the first edge of the triangle.
SliceSegment ==
    /\ pc = "input"
    /\ line' = Edge(triangle, 0)
    /\ segment_intersections' = slice_segment(line', current_layer_height)
    /\ pc' = "segment"
    /\ UNCHANGED << triangle, current_layer_height, collected, sorted, intersections, ord >>

\* A call of slice_triangle.
SliceTriangle ==
    /\ pc = "input"
    /\ \E variant \in SortVariants :
        /\ collected' = Collect(triangle, current_layer_height)
        /\ sorted' = sort_by(collected', variant)
        /\ intersections' = slice_triangle(triangle, current_layer_height, variant)
    /\ pc' = "triangle"
    /\ UNCHANGED << triangle, current_layer_height, line, segment_intersections, ord >>

\* Calls of compare_by_xyz with tolerance EPSILON on every pair of vertices.
CompareByXyz ==
    /\ pc = "input"
    /\ ord' = [i \in 1 .. 3 |-> [j \in 1 .. 3 |->
                  compare_by_xyz(triangle[i], triangle[j], EPSILON)]]
    /\ pc' = "compared"
    /\ UNCHANGED << triangle, current_layer_height, line, segment_intersections,
                    collected, sorted, intersections >>

Next == SliceSegment \/ SliceTriangle \/ CompareByXyz

Spec == Init /\ [][Next]_vars

\* Every input coordinate is a value of the float format; slice_segment
\* returns at most 2 points and the loop collects at most 6.
TypeOK ==
    /\ pc \in {"input", "segment", "triangle", "compared"}
    /\ \A i \in 1 .. 3 :
           IsF32(triangle[i].x) /\ IsF32(triangle[i].y) /\ IsF32(triangle[i].z)
    /\ IsF32(current_layer_height)
    /\ Len(segment_intersections) <= 2
    /\ Len(collected) <= 6

\* ------------------------------------------------------- claim vocabulary
\* The inputs of the slice_segment call.
Start == line[1]
End == line[2]
\* direction.y and t as the code computes them
DirectionY == FSub(End.y, Start.y)
ParamT == FDiv(FSub(current_layer_height, Start.y), DirectionY)

\* The vertex v with its y set to the height.
AtHeight(v) == Vec3(v.x, current_layer_height, v.z)

Above(v) == v.y > current_layer_height
Below(v) == v.y < current_layer_height
NumAbove == Cardinality({i \in 1 .. 3 : Above(triangle[i])})
NumBelow == Cardinality({i \in 1 .. 3 : Below(triangle[i])})

\* s is ascending under compare_by_xyz with tolerance EPSILON
Ascending(s) ==
    \A i \in 1 .. Len(s) - 1 : compare_by_xyz(s[i], s[i + 1], EPSILON) # "Greater"

\* no two entries of s, at any two positions, are within EPSILON of each other
PairwiseDistinct(s) ==
    \A i, j \in 1 .. Len(s) : i < j => ~abs_diff_eq(s[i], s[j], EPSILON)

\* C1: slice_triangle returns 0, 2 or 3 points, never 1 and never more than 3.
C1_ZeroTwoOrThreePoints ==
    pc = "triangle" => Len(intersections) \in {0, 2, 3}

\* C2: the sequence returned by slice_triangle is ascending under
\* compare_by_xyz and no two of its points are within EPSILON of each other.
C2_SortedAndPairwiseDistinct ==
    pc = "triangle" => Ascending(intersections) /\ PairwiseDistinct(intersections)

\* C3 (as stated): when direction.y is within EPSILON of 0 and start.y is
\* within EPSILON of h, slice_segment returns [start(y=h), end(y=h)].
C3_ApproxInPlaneReturnsEndpoints ==
    (/\ pc = "segment"
     /\ approx_equal(DirectionY, 0, EPSILON)
     /\ approx_equal(Start.y, current_layer_height, EPSILON))
    => segment_intersections = << AtHeight(Start), AtHeight(End) >>

\* C3 (amended): when direction.y is exactly 0 and start.y is exactly h,
\* slice_segment returns exactly [start(y=h), end(y=h)], in that order.
C3_ExactInPlaneReturnsEndpoints ==
    (/\ pc = "segment"
     /\ DirectionY = 0
     /\ Start.y = current_layer_height)
    => segment_intersections = << AtHeight(Start), AtHeight(End) >>

C3_Witness ==
    /\ pc = "segment"
    /\ DirectionY = 0
    /\ Start.y = current_layer_height
    /\ Start.x < End.x
    /\ Len(segment_intersections) = 2

\* C4: when direction.y is not within EPSILON of 0, with
\* t = (h - start.y) / direction.y: if 0 <= t <= 1 slice_segment returns
\* one point, whose y is h and whose x and z are start + t * direction;
\* otherwise it returns the empty sequence.
C4_InterpolatedPoint ==
    (pc = "segment" /\ ~approx_equal(DirectionY, 0, EPSILON))
    => IF 0 <= ParamT /\ ParamT <= One
       THEN /\ Len(segment_intersections) = 1
            /\ segment_intersections[1].y = current_layer_height
            /\ segment_intersections[1].x =
                   FAdd(Start.x, FMul(FSub(End.x, Start.x), ParamT))
            /\ segment_intersections[1].z =
                   FAdd(Start.z, FMul(FSub(End.z, Start.z), ParamT))
       ELSE segment_intersections = << >>

C4_Witness ==
    /\ pc = "segment"
    /\ ~approx_equal(DirectionY, 0, EPSILON)
    /\ ParamT = One
    /\ Start.x # End.x
    /\ Len(segment_intersections) = 1

\* C5: when direction.y is within EPSILON of 0 and start.y is not within
\* EPSILON of h, slice_segment returns the empty sequence.
C5_ParallelOffsetIsEmpty ==
    (/\ pc = "segment"
     /\ approx_equal(DirectionY, 0, EPSILON)
     /\ ~approx_equal(Start.y, current_layer_height, EPSILON))
    => segment_intersections = << >>

C5_Witness ==
    /\ pc = "segment"
    /\ DirectionY # 0
    /\ approx_equal(DirectionY, 0, EPSILON)
    /\ ~approx_equal(Start.y, current_layer_height, EPSILON)
    /\ segment_intersections = << >>

\* C6: a triangle with one vertex strictly above h and two strictly below,
\* or one strictly below and two strictly above, yields exactly 2 points.
C6_StraddlingYieldsTwoPoints ==
    (/\ pc = "triangle"
     /\ \/ NumAbove = 1 /\ NumBelow = 2
        \/ NumAbove = 2 /\ NumBelow = 1)
    => Len(intersections) = 2

\* C8: a triangle whose vertices are all strictly above h, or all strictly
\* below h, yields the empty sequence.
C8_AboveOrBelowIsEmpty ==
    (pc = "triangle" /\ (NumAbove = 3 \/ NumBelow = 3))
    => intersections = << >>

\* C9: compare_by_xyz with a fixed tolerance is antisymmetric and transitive.
Reverse(o) == IF o = "Less" THEN "Greater" ELSE IF o = "Greater" THEN "Less" ELSE "Equal"

C9_ValidTotalOrder ==
    pc = "compared" =>
        /\ \A i, j \in 1 .. 3 : ord[i][j] = Reverse(ord[j][i])
        /\ \A i, j, k \in 1 .. 3 :
               (ord[i][j] # "Greater" /\ ord[j][k] # "Greater") => ord[i][k] # "Greater"

\* C7 (as stated): a triangle whose three vertices all have y within EPSILON
\* of h yields exactly its 3 vertices (with y set to h), in ascending order.
VerticesAtHeight == {AtHeight(triangle[i]) : i \in 1 .. 3}

ReturnsThreeVerticesSorted ==
    /\ Len(intersections) = 3
    /\ {intersections[i] : i \in 1 .. 3} = VerticesAtHeight
    /\ Ascending(intersections)

VerticesStrictlyOrdered ==
    LET cmp(i, j) == compare_by_xyz(triangle[i], triangle[j], EPSILON) IN
    /\ \A i, j \in 1 .. 3 : i # j => cmp(i, j) # "Equal"
    /\ \A i, j, k \in 1 .. 3 :
           (cmp(i, j) = "Less" /\ cmp(j, k) = "Less") => cmp(i, k) = "Less"

RECURSIVE Pick(_, _)
Pick(s, K) ==
    IF s = << >> THEN << >>
    ELSE LET rest == Pick(SubSeq(s, 1, Len(s) - 1), K) IN
         IF Len(s) \in K THEN Append(rest, s[Len(s)]) ELSE rest

Near(a, b) == abs_diff_eq(a, b, EPSILON)

\* positions i .. k of s hold a chain: the entries after the first up to the
\* last but one are near the first, the last is near the one before it and
\* is not near the first (k = i + 2 is the chain p1, p2, p3)
ChainAt(s, i, k) ==
    /\ i + 2 <= k
    /\ k <= Len(s)
    /\ \A m \in i + 1 .. k - 1 : Near(s[m], s[i])
    /\ Near(s[k], s[k - 1])
    /\ ~Near(s[k], s[i])

\* C10 (as stated): a point of the sorted list is dropped exactly when it is
\* within EPSILON of its immediate predecessor in the sorted list.
C10_DroppedIffNearPredecessor ==
    pc = "triangle" =>
        intersections =
            Pick(sorted, {i \in 1 .. Len(sorted) :
                              i = 1 \/ ~Near(sorted[i], sorted[i - 1])})

\* the last position of K before position i
LastKept(K, i) == CHOOSE k \in K : k < i /\ \A m \in K : m < i => m <= k

\* C10 (amended): a point of the sorted list is dropped exactly when it is
\* within EPSILON of the most recent point that was kept; so for a chain
\* whose first point p1 is kept, whose middle points are within EPSILON of
\* p1, and whose last point p3 is within EPSILON of the point before it but
\* not of p1, the middle points are dropped and p3 is kept.
C10_DroppedIffNearLastKept ==
    pc = "triangle" =>
        IF sorted = << >> THEN intersections = << >>
        ELSE \E rest \in SUBSET (2 .. Len(sorted)) :
                LET K == rest \cup {1} IN
                /\ intersections = Pick(sorted, K)
                /\ \A i \in 2 .. Len(sorted) :
                       i \in K <=> ~Near(sorted[i], sorted[LastKept(K, i)])
                /\ \A i \in K : \A k \in 1 .. Len(sorted) :
                       ChainAt(sorted, i, k) =>
                           (k \in K /\ \A m \in i + 1 .. k - 1 : m \notin K)

C10_Witness ==
    /\ pc = "triangle"
    /\ \E k \in 1 .. Len(sorted) : ChainAt(sorted, 1, k)
    /\ Len(intersections) >= 2

====
